---- MODULE Spec2Model ----
(***************************************************************************)
(* Model of synapse_ros (src/src/synapse_ros.cpp): the SynapseRos node,    *)
(* its background UDP thread (udp_entry_point), the clock-offset           *)
(* computation of publish_uptime, the timestamp correction of              *)
(* compute_header, and the outbound callbacks that hand frames to TF_Send. *)
(*                                                                         *)
(* 64-bit and unsigned 32-bit quantities do not fit a TLC integer, so a    *)
(* nanosecond count is kept as a pair Wide(s, n) that denotes              *)
(* s * 1e9 + n with 0 <= n < 1e9 (base-1e9 digits).  All the C++           *)
(* arithmetic on int64_t, double and uint32_t is carried out on such       *)
(* pairs with its real width and rounding.                                 *)
(***************************************************************************)
EXTENDS Integers, Sequences, FiniteSets, TLC

VARIABLES
    ros_clock_offset_,  \* SynapseRos::ros_clock_offset_ (builtin_interfaces Time)
    ok,                 \* rclcpp::ok(), the process-wide running flag
    main_pc,            \* position of main(): spin, TF_Send, join, shutdown, exit
    udp_pc,             \* position of udp_entry_point: check, run_for, done
    rx,                 \* the inbound message most recently dispatched
    out,                \* what that dispatch published, in order
    call,               \* the outbound callback invocation most recently made
    tx,                 \* the TF_Msg frame inside TF_Send (NoFrame when none)
    ncalls,             \* number of outbound callback invocations
    nsent,              \* number of frames TF_Send has written
    slicesAfterStop     \* run_for slices that ended after ok was cleared

vars == << ros_clock_offset_, ok, main_pc, udp_pc, rx, out, call, tx,
           ncalls, nsent, slicesAfterStop >>

mainVars == << main_pc, call, tx, ncalls, nsent >>
udpVars == << ros_clock_offset_, udp_pc, rx, out, slicesAfterStop >>

----------------------------------------------------------------------------
(* Bounds of the model *)

MaxCalls == 2

----------------------------------------------------------------------------
(* Wide integers: s * 1e9 + n, 0 <= n < 1e9 *)

NANOS == 1000000000

Wide(s, n) == [s |-> s, n |-> n]

\* n may lie in (-1e9, 2e9): one borrow or one carry restores the digit range
WNorm(s, n) ==
    IF n < 0 THEN Wide(s - 1, n + NANOS)
    ELSE IF n >= NANOS THEN Wide(s + 1, n - NANOS)
    ELSE Wide(s, n)

WAdd(a, b) == WNorm(a.s + b.s, a.n + b.n)
WSub(a, b) == WNorm(a.s - b.s, a.n - b.n)
WNeg(a) == WSub(Wide(0, 0), a)
WLess(a, b) == a.s < b.s \/ (a.s = b.s /\ a.n < b.n)
WIsNeg(a) == a.s < 0
WAbs(a) == IF WIsNeg(a) THEN WNeg(a) ELSE a

RECURSIVE Pow2(_)
Pow2(k) == IF k = 0 THEN 1 ELSE 2 * Pow2(k - 1)

\* 2^32 = 4 * 1e9 + 294967296
TwoPow32 == Wide(4, 294967296)

\* 2^53 .. 2^60 as wide integers
DoublePow2 ==
    << Wide(9007199, 254740992), Wide(18014398, 509481984),
       Wide(36028797, 18963968), Wide(72057594, 37927936),
       Wide(144115188, 75855872), Wide(288230376, 151711744),
       Wide(576460752, 303423488), Wide(1152921504, 606846976) >>

----------------------------------------------------------------------------
(* C++ conversions and arithmetic, on wide integers *)

\* Exponent k of the spacing 2^k between neighbouring doubles at magnitude m:
\* a double carries 53 significant bits, so integers below 2^53 are exact and
\* from 2^(52+k) on only multiples of 2^k are.  Every value the model holds
\* is below 2^61, hence k <= 8; 2^k divides 1e9 for all such k.
UlpExp(m) == Cardinality({ k \in 1..8 : ~WLess(m, DoublePow2[k]) })

\* int64_t -> double: round to nearest, ties to even (the conversion the
\* compiler inserts wherever an int64_t meets the double literal 1e9)
ToDouble(x) ==
    LET m == WAbs(x)
        u == Pow2(UlpExp(m))
        r == m.n % u
        down == m.n - r
        up == (2 * r > u) \/ (2 * r = u /\ (down \div u) % 2 = 1)
        mm == WNorm(m.s, IF up THEN down + u ELSE down)
    IN  IF WIsNeg(x) THEN WNeg(mm) ELSE mm

\* double / 1e9 converted to an integer type: truncation toward zero
TruncDiv1e9(d) == IF d.s < 0 /\ d.n > 0 THEN d.s + 1 ELSE d.s

\* double -> uint32_t.  In range the value is kept.  Out of range (here: a
\* negative value) the conversion is undefined behaviour; the builds produce
\* either the value modulo 2^32 (x86-64: cvttsd2si on a 64-bit register, low
\* half kept) or the saturated value 0 (AArch64: fcvtzu).
DoubleToUint32(d) ==
    IF ~WIsNeg(d) /\ WLess(d, TwoPow32) THEN {d}
    ELSE {WAdd(d, TwoPow32), Wide(0, 0)}

\* int32_t + uint32_t: the usual arithmetic conversions make the sum a
\* uint32_t, which wraps modulo 2^32
Uint32Add(a, b) ==
    LET sum == WAdd(Wide(0, a), b)
    IN  IF WLess(sum, TwoPow32) THEN sum ELSE WSub(sum, TwoPow32)

----------------------------------------------------------------------------
(* Messages *)

\* builtin_interfaces::msg::Time: int32 sec, uint32 nanosec (a wide integer)
RosTime(sec, nanosec) == [sec |-> sec, nanosec |-> nanosec]
ZeroTime == RosTime(0, Wide(0, 0))

\* std_msgs::msg::Header
RosHeader(frame_id, stamp) == [frame_id |-> frame_id, stamp |-> stamp]
EmptyHeader == RosHeader("", ZeroTime)

\* synapse::msgs::Time payloads of the uptime topic (int64 sec, int32 nanosec)
UptimeMsgs ==
    { [sec |-> 100, nanosec |-> 0], [sec |-> 2, nanosec |-> 500000000] }

\* readings of get_clock()->now(), in nanoseconds
NowVals ==
    { Wide(1, 0), Wide(1000, 500000000),
      Wide(1700000000, 100), Wide(1700000000, 999999900) }

\* synapse::msgs::Header of an inbound Actuators or Status message;
\* present = has_header()
NoHeader ==
    [present |-> FALSE, frame_id |-> "", has_stamp |-> FALSE,
     sec |-> 0, nanosec |-> 0]

InHeaders ==
    { NoHeader,
      [present |-> TRUE, frame_id |-> "odom", has_stamp |-> FALSE,
       sec |-> 0, nanosec |-> 0],
      [present |-> TRUE, frame_id |-> "odom", has_stamp |-> TRUE,
       sec |-> 105, nanosec |-> 600000000],
      [present |-> TRUE, frame_id |-> "odom", has_stamp |-> TRUE,
       sec |-> 105, nanosec |-> 100000000] }

NoRx == [op |-> "none", time |-> [sec |-> 0, nanosec |-> 0],
         now |-> Wide(0, 0), hdr |-> NoHeader]

Published(chan, header) == [chan |-> chan, header |-> header]

\* Width in bytes of TF_Msg::len (TF_LEN), the length field of the frame
TF_LEN_BYTES == 2

\* Outbound host messages, by the size of their protobuf serialization;
\* serializable = FALSE is a message SerializeToString rejects
OutMsgs ==
    { [id |-> "small", bytes |-> 3, serializable |-> TRUE],
      [id |-> "large", bytes |-> Pow2(8 * TF_LEN_BYTES) + 3,
       serializable |-> TRUE],
      [id |-> "rejected", bytes |-> 0, serializable |-> FALSE] }

\* std::string data
Data(length, content) == [length |-> length, content |-> content]
EmptyData == Data(0, "")

\* TF_Msg, the fields tf_send assigns
Frame(type, len, data) == [type |-> type, len |-> len, data |-> data]
NoFrame == Frame("none", 0, EmptyData)

NoCall == [cb |-> "none", topic |-> "none", ok |-> TRUE, data |-> EmptyData]

\* Message::SerializeToString(&data): clears data, then fills it and returns
\* true, or returns false
SerializeToString(msg) ==
    IF msg.serializable
    THEN [ok |-> TRUE, data |-> Data(msg.bytes, msg.id)]
    ELSE [ok |-> FALSE, data |-> EmptyData]

----------------------------------------------------------------------------
(* State after construction (SynapseRos::SynapseRos): the subscriptions and
   publishers exist, ros_clock_offset_ is value-initialized, the link is
   created and the thread running udp_entry_point has been started *)

Init ==
    /\ ros_clock_offset_ = ZeroTime
    /\ ok = TRUE
    /\ main_pc = "spin"
    /\ udp_pc = "check"
    /\ rx = NoRx
    /\ out = << >>
    /\ call = NoCall
    /\ tx = NoFrame
    /\ ncalls = 0
    /\ nsent = 0
    /\ slicesAfterStop = 0

----------------------------------------------------------------------------
(* Inbound path, run by the background thread inside run_for *)

\* sec is an int64_t sum; nanos is the uint32_t sum widened to int64_t;
\* extra_sec = nanos / 1e9 and nanos -= extra_sec * 1e9 go through double,
\* which is exact below 2^53
compute_header(msg) ==
    IF msg.has_stamp
    THEN LET sec0 == msg.sec + ros_clock_offset_.sec
             nanos0 == Uint32Add(msg.nanosec, ros_clock_offset_.nanosec)
             extra_sec == TruncDiv1e9(ToDouble(nanos0))
             nanos == WSub(ToDouble(nanos0), Wide(extra_sec, 0))
             sec == sec0 + extra_sec
         IN  RosHeader(msg.frame_id, RosTime(sec, nanos))
    ELSE RosHeader(msg.frame_id, ZeroTime)

\* publish_actuators as it would be if the correction stored its result
publish_actuators_storing(hdr) ==
    /\ udp_pc = "run_for"
    /\ out' = << Published("out/actuators",
                   IF hdr.present THEN compute_header(hdr) ELSE EmptyHeader) >>
    /\ ros_clock_offset_' =
          IF hdr.present THEN compute_header(hdr).stamp ELSE ros_clock_offset_
    /\ rx' = [op |-> "actuators", time |-> [sec |-> 0, nanosec |-> 0],
              now |-> Wide(0, 0), hdr |-> hdr]
    /\ UNCHANGED << udp_pc, slicesAfterStop, ok >>
    /\ UNCHANGED mainVars

\* The position, velocity and normalized arrays are copied element by
\* element and carry no state; only the header is kept here.
publish_actuators(hdr) ==
    /\ udp_pc = "run_for"
    /\ out' = << Published("out/actuators",
                   IF hdr.present THEN compute_header(hdr) ELSE EmptyHeader) >>
    /\ rx' = [op |-> "actuators", time |-> [sec |-> 0, nanosec |-> 0],
              now |-> Wide(0, 0), hdr |-> hdr]
    /\ UNCHANGED << ros_clock_offset_, udp_pc, slicesAfterStop, ok >>
    /\ UNCHANGED mainVars

\* The status fields are copied one by one; only the header is kept here.
publish_status(hdr) ==
    /\ udp_pc = "run_for"
    /\ out' = << Published("out/status",
                   IF hdr.present THEN compute_header(hdr) ELSE EmptyHeader) >>
    /\ rx' = [op |-> "status", time |-> [sec |-> 0, nanosec |-> 0],
              now |-> Wide(0, 0), hdr |-> hdr]
    /\ UNCHANGED << ros_clock_offset_, udp_pc, slicesAfterStop, ok >>
    /\ UNCHANGED mainVars

\* publish_uptime as it would be if it published before storing the offset
publish_uptime_stale(msg, now) ==
    /\ udp_pc = "run_for"
    /\ LET uptime_nanos == ToDouble(WAdd(Wide(msg.sec, 0), Wide(0, msg.nanosec)))
           clock_offset_nanos == WSub(now, uptime_nanos)
           ros_uptime == RosTime(msg.sec, Wide(0, msg.nanosec))
           sec == TruncDiv1e9(ToDouble(clock_offset_nanos))
           rest == WSub(ToDouble(clock_offset_nanos), Wide(sec, 0))
       IN  \E nanosec \in DoubleToUint32(rest) :
             /\ out' = << Published("out/uptime", RosHeader("", ros_uptime)),
                          Published("out/clock_offset",
                                    RosHeader("", ros_clock_offset_)) >>
             /\ ros_clock_offset_' = RosTime(sec, nanosec)
    /\ rx' = [op |-> "uptime", time |-> msg, now |-> now, hdr |-> NoHeader]
    /\ UNCHANGED << udp_pc, slicesAfterStop, ok >>
    /\ UNCHANGED mainVars

\* uptime_nanos = msg.sec() * 1e9 + msg.nanosec() is a double sum (the
\* product is exact for every int32 second count) converted to int64_t;
\* sec and nanosec of the offset are both computed from the double nearest
\* to clock_offset_nanos
publish_uptime(msg, now) ==
    /\ udp_pc = "run_for"
    /\ LET uptime_nanos == ToDouble(WAdd(Wide(msg.sec, 0), Wide(0, msg.nanosec)))
           clock_offset_nanos == WSub(now, uptime_nanos)
           ros_uptime == RosTime(msg.sec, Wide(0, msg.nanosec))
           sec == TruncDiv1e9(ToDouble(clock_offset_nanos))
           rest == WSub(ToDouble(clock_offset_nanos), Wide(sec, 0))
       IN  \E nanosec \in DoubleToUint32(rest) :
             /\ ros_clock_offset_' = RosTime(sec, nanosec)
             /\ out' = << Published("out/uptime", RosHeader("", ros_uptime)),
                          Published("out/clock_offset",
                                    RosHeader("", ros_clock_offset_')) >>
    /\ rx' = [op |-> "uptime", time |-> msg, now |-> now, hdr |-> NoHeader]
    /\ UNCHANGED << udp_pc, slicesAfterStop, ok >>
    /\ UNCHANGED mainVars

----------------------------------------------------------------------------
(* The background thread *)

\* udp_entry_point as it would be with a loop that never reads the flag
udp_entry_point_forever ==
    /\ udp_pc = "check"
    /\ udp_pc' = "run_for"
    /\ UNCHANGED << ros_clock_offset_, rx, out, slicesAfterStop, ok >>
    /\ UNCHANGED mainVars

\* while (rclcpp::ok()) { g_udp_link->run_for(1 s); }
udp_entry_point ==
    /\ udp_pc = "check"
    /\ udp_pc' = IF ok THEN "run_for" ELSE "done"
    /\ UNCHANGED << ros_clock_offset_, rx, out, slicesAfterStop, ok >>
    /\ UNCHANGED mainVars

\* run_for returns when its slice is over
run_for_return ==
    /\ udp_pc = "run_for"
    /\ udp_pc' = "check"
    /\ slicesAfterStop' = IF ok THEN slicesAfterStop ELSE slicesAfterStop + 1
    /\ UNCHANGED << ros_clock_offset_, rx, out, ok >>
    /\ UNCHANGED mainVars

----------------------------------------------------------------------------
(* Outbound path, run by the executor inside rclcpp::spin *)

\* tf_send as it would be if the payload pointer aimed at a buffer the
\* receive path writes
tf_send_shared_buffer(topic, data) ==
    Frame(topic, data.length % Pow2(8 * TF_LEN_BYTES),
          IF rx.op = "none" THEN data ELSE Data(data.length, rx.op))

tf_send(topic, data) ==
    Frame(topic, data.length % Pow2(8 * TF_LEN_BYTES), data)

\* A failed serialization is reported on std::cerr and the function goes on
\* to tf_send with whatever data holds.
actuators_callback(msg) ==
    /\ main_pc = "spin"
    /\ ok
    /\ ncalls < MaxCalls
    /\ LET r == SerializeToString(msg)
       IN  /\ call' = [cb |-> "actuators_callback", topic |-> "SYNAPSE_ACTUATORS_TOPIC",
                       ok |-> r.ok, data |-> r.data]
           /\ tx' = tf_send("SYNAPSE_ACTUATORS_TOPIC", r.data)
    /\ main_pc' = "TF_Send"
    /\ ncalls' = ncalls + 1
    /\ UNCHANGED << nsent, ok >>
    /\ UNCHANGED udpVars

joy_callback(msg) ==
    /\ main_pc = "spin"
    /\ ok
    /\ ncalls < MaxCalls
    /\ LET r == SerializeToString(msg)
       IN  /\ call' = [cb |-> "joy_callback", topic |-> "SYNAPSE_JOY_TOPIC",
                       ok |-> r.ok, data |-> r.data]
           /\ tx' = tf_send("SYNAPSE_JOY_TOPIC", r.data)
    /\ main_pc' = "TF_Send"
    /\ ncalls' = ncalls + 1
    /\ UNCHANGED << nsent, ok >>
    /\ UNCHANGED udpVars

\* The constructor binds no subscription to imu_callback; it is kept as an
\* operation of the object.
imu_callback(msg) ==
    /\ main_pc = "spin"
    /\ ok
    /\ ncalls < MaxCalls
    /\ LET r == SerializeToString(msg)
       IN  /\ call' = [cb |-> "imu_callback", topic |-> "SYNAPSE_IMU_TOPIC",
                       ok |-> r.ok, data |-> r.data]
           /\ tx' = tf_send("SYNAPSE_IMU_TOPIC", r.data)
    /\ main_pc' = "TF_Send"
    /\ ncalls' = ncalls + 1
    /\ UNCHANGED << nsent, ok >>
    /\ UNCHANGED udpVars

\* TF_Send(tf_.get(), &frame): the frame goes out on the socket and the
\* callback returns
TF_Send ==
    /\ main_pc = "TF_Send"
    /\ tx' = NoFrame
    /\ nsent' = nsent + 1
    /\ main_pc' = "spin"
    /\ UNCHANGED << call, ncalls, ok >>
    /\ UNCHANGED udpVars

----------------------------------------------------------------------------
(* main() and the process-wide flag *)

\* SIGINT: the handler rclcpp::init installed clears the flag
Signal ==
    /\ ok
    /\ ok' = FALSE
    /\ UNCHANGED mainVars
    /\ UNCHANGED udpVars

\* rclcpp::spin returns once the flag is cleared; the temporary shared_ptr
\* then dies and ~SynapseRos is entered
spin_return ==
    /\ main_pc = "spin"
    /\ ~ok
    /\ main_pc' = "join"
    /\ UNCHANGED << call, tx, ncalls, nsent, ok >>
    /\ UNCHANGED udpVars

\* ~SynapseRos as it would be without the join (a detached thread)
dtor_without_join ==
    /\ main_pc = "join"
    /\ main_pc' = "shutdown"
    /\ UNCHANGED << call, tx, ncalls, nsent, ok >>
    /\ UNCHANGED udpVars

\* ~SynapseRos: udp_thread_->join() returns when the thread has returned;
\* only then are the members and the Node base destroyed
dtor_SynapseRos ==
    /\ main_pc = "join"
    /\ udp_pc = "done"
    /\ main_pc' = "shutdown"
    /\ UNCHANGED << call, tx, ncalls, nsent, ok >>
    /\ UNCHANGED udpVars

\* rclcpp::shutdown(); return 0;
shutdown ==
    /\ main_pc = "shutdown"
    /\ main_pc' = "exit"
    /\ ok' = FALSE
    /\ UNCHANGED << call, tx, ncalls, nsent >>
    /\ UNCHANGED udpVars

----------------------------------------------------------------------------

UdpStep ==
    \/ udp_entry_point
    \/ run_for_return
    \/ \E msg \in UptimeMsgs, now \in NowVals : publish_uptime(msg, now)
    \/ \E hdr \in InHeaders : publish_actuators(hdr)
    \/ \E hdr \in InHeaders : publish_status(hdr)

MainStep ==
    \/ \E msg \in OutMsgs : actuators_callback(msg)
    \/ \E msg \in OutMsgs : joy_callback(msg)
    \/ \E msg \in OutMsgs : imu_callback(msg)
    \/ TF_Send
    \/ spin_return
    \/ dtor_SynapseRos
    \/ shutdown

Next == UdpStep \/ MainStep \/ Signal

Spec == Init /\ [][Next]_vars

\* Both threads are scheduled by the operating system, and run_for returns
\* within its duration: neither thread stops while it has a step to take.
\* Inbound traffic, outbound callbacks and the signal are not forced.
FairSpec ==
    /\ Spec
    /\ WF_vars(udp_entry_point)
    /\ WF_vars(run_for_return)
    /\ WF_vars(TF_Send)
    /\ WF_vars(spin_return)
    /\ WF_vars(dtor_SynapseRos)
    /\ WF_vars(shutdown)

----------------------------------------------------------------------------
(* Properties *)

\* the nanosecond count a stored Time denotes
TimeNanos(t) == WAdd(Wide(t.sec, 0), t.nanosec)

\* remote uptime of the observation last dispatched, in nanoseconds
RxUptimeNanos == Wide(rx.time.sec, rx.time.nanosec)

\* a uint32 nanosecond field lies in [0, 1e9)
NanosecInRange(n) == n.s = 0

\* C1: after publish_uptime has handled an uptime message at local time now,
\* the stored offset denotes exactly now - remote uptime, in nanoseconds.
C1_OffsetExact ==
    rx.op = "uptime" =>
        TimeNanos(ros_clock_offset_) = WSub(rx.now, RxUptimeNanos)

\* C1 restricted to observations with now >= remote uptime: still not exact,
\* the int64 -> double conversions round the nanoseconds away.
C1_OffsetExactWhenNonNegative ==
    (rx.op = "uptime" /\ ~WIsNeg(WSub(rx.now, RxUptimeNanos))) =>
        TimeNanos(ros_clock_offset_) = WSub(rx.now, RxUptimeNanos)

\* The example of C1: uptime (100, 0) seen at (1000, 500000000) has been
\* handled and the stored offset is (900, 500000000).
C1_Example ==
    /\ rx.op = "uptime"
    /\ rx.time = [sec |-> 100, nanosec |-> 0]
    /\ rx.now = Wide(1000, 500000000)
    /\ ros_clock_offset_ = RosTime(900, Wide(0, 500000000))

\* C2: the stored offset is always normalized, 0 <= nanosec < 1e9, whether
\* now - remote uptime is positive or negative.
C2_OffsetNormalized == NanosecInRange(ros_clock_offset_.nanosec)

\* C2 restricted to observations with now >= remote uptime
C2_NormalizedWhenNonNegative ==
    (rx.op = "uptime" /\ ~WIsNeg(WSub(rx.now, RxUptimeNanos))) =>
        NanosecInRange(ros_clock_offset_.nanosec)

\* An observation with a negative difference has been handled.
C2_NegativeObserved ==
    rx.op = "uptime" /\ WIsNeg(WSub(rx.now, RxUptimeNanos))

\* C3: a header with a stamp is published with stamp = remote stamp + stored
\* offset, nanoseconds carried into seconds and within [0, 1e9); a header
\* without a stamp gets no correction; the frame_id is copied either way.
C3_HeaderCorrected ==
    (rx.op \in {"actuators", "status"} /\ rx.hdr.present) =>
        LET h == out[1].header
            sum == WAdd(WAdd(Wide(rx.hdr.sec, 0), Wide(0, rx.hdr.nanosec)),
                        TimeNanos(ros_clock_offset_))
        IN  /\ h.frame_id = rx.hdr.frame_id
            /\ IF rx.hdr.has_stamp
               THEN h.stamp = RosTime(sum.s, Wide(0, sum.n))
               ELSE h.stamp = ZeroTime

\* C3 restricted to states whose stored offset is normalized
C3_HeaderCorrectedWhenNormalized ==
    NanosecInRange(ros_clock_offset_.nanosec) => C3_HeaderCorrected

\* The example of C3: offset (900, 500000000) applied to (105, 600000000)
\* was published as (1006, 100000000).
C3_Example ==
    /\ rx.op = "actuators"
    /\ rx.hdr.has_stamp /\ rx.hdr.nanosec = 600000000
    /\ ros_clock_offset_ = RosTime(900, Wide(0, 500000000))
    /\ out[1].header.stamp = RosTime(1006, Wide(0, 100000000))

\* C4: the thread leaves its loop only with the flag cleared; once the flag
\* is cleared at most one run_for slice still ends, the thread then returns,
\* and the destructor's join, hence the teardown, completes.
C4_LoopTermination ==
    /\ [](udp_pc = "done" => ~ok)
    /\ [](slicesAfterStop <= 1)
    /\ (~ok ~> udp_pc = "done")
    /\ (~ok ~> main_pc \in {"shutdown", "exit"})

\* The flag was cleared during a slice, the slice ended, the thread returned
\* and main() ran to its end.
C4_TornDown ==
    main_pc = "exit" /\ udp_pc = "done" /\ slicesAfterStop = 1

\* C5 as stated: from the moment the destructor is entered the thread is
\* not inside run_for (no receive, no dispatch into the object).
C5_NoUseOnceDestructionBegins ==
    main_pc \in {"join", "shutdown", "exit"} => udp_pc # "run_for"

\* C5 amended: from the moment the destructor's join has returned, that is,
\* before any member is destroyed, the thread has returned from
\* udp_entry_point; a slice in progress may still run while the destructor
\* is blocked in join.
C5_NoUseAfterJoin ==
    main_pc \in {"shutdown", "exit"} => udp_pc = "done"

\* The join has returned after inbound messages were dispatched.
C5_Joined ==
    main_pc = "shutdown" /\ udp_pc = "done" /\ rx.op # "none"

Corrected(t) ==
    compute_header([present |-> TRUE, frame_id |-> "", has_stamp |-> TRUE,
                    sec |-> t.sec, nanosec |-> t.nanosec]).stamp

\* C7 as stated: an uptime message is answered by exactly one message on
\* out/uptime, the corrected uptime, followed by exactly one on
\* out/clock_offset, the newly stored offset.
C7_PublishesCorrectedUptime ==
    rx.op = "uptime" =>
        out = << Published("out/uptime", RosHeader("", Corrected(rx.time))),
                 Published("out/clock_offset",
                           RosHeader("", ros_clock_offset_)) >>

\* C7 amended: an uptime message is answered by exactly one message on
\* out/uptime, the uptime as received with no offset applied, followed by
\* exactly one on out/clock_offset, the newly stored offset.
C7_PublishesUptimeAndOffset ==
    rx.op = "uptime" =>
        out = << Published("out/uptime",
                   RosHeader("", RosTime(rx.time.sec, Wide(0, rx.time.nanosec)))),
                 Published("out/clock_offset",
                           RosHeader("", ros_clock_offset_)) >>

\* An uptime message was handled and the offset published is the non-zero
\* one it produced.
C7_Published ==
    /\ rx.op = "uptime"
    /\ Len(out) = 2
    /\ out[2].header.stamp = RosTime(900, Wide(0, 500000000))

\* C8: a message whose serialization failed puts no frame into TF_Send.
C8_FailureNotSent == main_pc = "TF_Send" => call.ok

\* C9: only publish_uptime, run by the background thread, changes the
\* stored offset; every other step leaves it as the last observation set it.
C9_OnlyUptimeWrites ==
    [][ros_clock_offset_' # ros_clock_offset_ =>
         (udp_pc = "run_for" /\ rx'.op = "uptime" /\ UNCHANGED mainVars)]_vars

\* A correction has run after an observation and the observed offset is
\* still the stored one.
C9_CorrectionAfterObservation ==
    /\ rx.op \in {"actuators", "status"}
    /\ rx.hdr.has_stamp
    /\ ros_clock_offset_ = RosTime(900, Wide(0, 500000000))
    /\ ncalls > 0

C10_TypeAndCount ==
    /\ main_pc = "TF_Send" => (tx.type = call.topic /\ ncalls = nsent + 1)
    /\ main_pc # "TF_Send" => ncalls = nsent

====
